---- MODULE Spec2Model ----
(***************************************************************************)
(* Model of neuroglancer's strided matrix kernel (util/matrix.ts):          *)
(* multiply, identity, copy, transpose, equal, transformPoint, the          *)
(* pivoted Gauss-Jordan inverse with its module-level pivot scratch, and   *)
(* the homogeneous transform builders.                                     *)
(*                                                                         *)
(* Buffers are functions over 0..len-1 (the source's indices).  Numbers    *)
(* are exact rationals extended with the IEEE-754 special values, so that  *)
(* a division by a zero pivot behaves as it does in the program:           *)
(*   <<p, q>>, q >= 1, p # 0, gcd(p, q) = 1   the rational p/q             *)
(*   <<0, 1>>, <<0, -1>>                       +0 and -0                    *)
(*   <<1, 0>>, <<-1, 0>>                       +Infinity and -Infinity      *)
(*   <<0, 0>>                                  NaN                          *)
(* Rounding is not modelled.                                               *)
(***************************************************************************)
EXTENDS Integers, Sequences, FiniteSets, TLC

\* ------------------------------------------------------------------ bounds
\* Largest matrix size given to the inverse engine.
MaxN == 3
\* Entries of the 1x1 and 2x2 inputs of the inverse, and of the inputs of the
\* other functions, range over -MaxVal..MaxVal.
MaxVal == 2
\* Matrices are stored with their own size as column stride, and padded by MaxPad.
MaxPad == 1

\* Largest matrix dimension given to multiply and transpose.
MaxDim == 2
\* The seeds of the input patterns of the other functions range over 0..MaxSeed.
MaxSeed == 3
\* Scale factors range over -1..MaxScale.
MaxScale == 4
\* Largest rank given to extendHomogeneousTransform.
MaxRank == 3

\* ----------------------------------------------------------------- numbers
Zero == <<0, 1>>
NegZero == <<0, -1>>
One == <<1, 1>>
MinusOne == <<-1, 1>>
PosInf == <<1, 0>>
NegInf == <<-1, 0>>
NaN == <<0, 0>>

AbsInt(i) == IF i < 0 THEN -i ELSE i

RECURSIVE GCD(_, _)
GCD(x, y) == IF y = 0 THEN x ELSE GCD(y, x % y)

\* The rational p/q, q >= 1, p # 0, in lowest terms.
Norm(p, q) == LET g == GCD(AbsInt(p), q) IN <<p \div g, q \div g>>

\* An integer literal.
I(v) == <<v, 1>>

IsNaN(x) == x = NaN
IsInf(x) == x[2] = 0 /\ x[1] # 0
IsZero(x) == x[1] = 0 /\ x[2] # 0
IsFinite(x) == x[2] # 0
\* -1, 1, or 0 for NaN; the sign of a zero is the sign it carries.
Sign(x) == IF x[1] > 0 THEN 1 ELSE IF x[1] < 0 THEN -1 ELSE x[2]

\* Unary minus.
Neg(x) == IF IsZero(x) THEN <<0, -x[2]>> ELSE <<-x[1], x[2]>>

\* Math.abs.
Abs(x) == IF Sign(x) < 0 THEN Neg(x) ELSE x

\* x * y
Mul(x, y) ==
  IF IsNaN(x) \/ IsNaN(y) THEN NaN
  ELSE IF IsInf(x) \/ IsInf(y)
    THEN IF IsZero(x) \/ IsZero(y) THEN NaN ELSE <<Sign(x) * Sign(y), 0>>
  ELSE IF IsZero(x) \/ IsZero(y) THEN <<0, Sign(x) * Sign(y)>>
  ELSE Norm(x[1] * y[1], x[2] * y[2])

\* x + y
Add(x, y) ==
  IF IsNaN(x) \/ IsNaN(y) THEN NaN
  ELSE IF IsInf(x) THEN (IF IsInf(y) /\ y # x THEN NaN ELSE x)
  ELSE IF IsInf(y) THEN y
  ELSE IF IsZero(x) /\ IsZero(y) THEN (IF x = NegZero /\ y = NegZero THEN NegZero ELSE Zero)
  ELSE IF IsZero(x) THEN y
  ELSE IF IsZero(y) THEN x
  ELSE LET p == x[1] * y[2] + y[1] * x[2]
       IN IF p = 0 THEN Zero ELSE Norm(p, x[2] * y[2])

\* 1.0 / x
Recip(x) ==
  IF IsNaN(x) THEN NaN
  ELSE IF IsZero(x) THEN <<Sign(x), 0>>
  ELSE IF IsInf(x) THEN <<0, Sign(x)>>
  ELSE <<Sign(x) * x[2], AbsInt(x[1])>>

\* x / y
Div(x, y) == Mul(x, Recip(y))

\* x > y (false when either is NaN)
Gt(x, y) ==
  IF IsNaN(x) \/ IsNaN(y) THEN FALSE
  ELSE IF IsInf(x) \/ IsInf(y)
    THEN (x = PosInf /\ y # PosInf) \/ (y = NegInf /\ x # NegInf)
  ELSE x[1] * AbsInt(y[2]) > y[1] * AbsInt(x[2])

\* x === y (and x == y) on numbers: NaN differs from itself, -0 equals +0.
Eq(x, y) ==
  IF IsNaN(x) \/ IsNaN(y) THEN FALSE
  ELSE IF IsZero(x) /\ IsZero(y) THEN TRUE
  ELSE x = y

\* new Float64Array(len)
NewArray(len) == [i \in 0..(len - 1) |-> Zero]

Length(buf) == Cardinality(DOMAIN buf)

\* buf[x] = v on a typed array: a write past the end is dropped.
Store(buf, x, v) == IF x \in DOMAIN buf THEN [buf EXCEPT ![x] = v] ELSE buf

\* buf[x] used as a number: a read past the end gives undefined, which is NaN
\* in arithmetic.
Load(buf, x) == IF x \in DOMAIN buf THEN buf[x] ELSE NaN

\* ------------------------------------------------------------ basic matrix ops
RECURSIVE DotFromWrongStride(_, _, _, _, _, _, _, _, _)
\* DotFrom that takes a's stride for b's columns.
DotFromWrongStride(sum, a, lda, b, ldb, mIndex, kIndex, nIndex, n) ==
  IF nIndex >= n THEN sum
  ELSE DotFromWrongStride(
         Add(sum, Mul(Load(a, mIndex + lda * nIndex), Load(b, nIndex + lda * kIndex))),
         a, lda, b, ldb, mIndex, kIndex, nIndex + 1, n)

RECURSIVE DotFrom(_, _, _, _, _, _, _, _, _)
\* The inner loop of multiply: sum += a[mIndex + lda * nIndex] * b[nIndex + ldb * kIndex].
DotFrom(sum, a, lda, b, ldb, mIndex, kIndex, nIndex, n) ==
  IF nIndex >= n THEN sum
  ELSE DotFrom(Add(sum, Mul(Load(a, mIndex + lda * nIndex), Load(b, nIndex + ldb * kIndex))),
               a, lda, b, ldb, mIndex, kIndex, nIndex + 1, n)

\* The last of the loop iterations in `writers`, or -1 when there is none: the
\* loops run in order, so of the writes to one offset the last one stays.
Last(writers) ==
  IF writers = {} THEN -1 ELSE CHOOSE w \in writers : \A u \in writers : u <= w

\* Iteration t of the two outer loops has mIndex = t \div k and kIndex = t % k.
multiply(c, ldc, a, lda, b, ldb, m, n, k) ==
  [x \in DOMAIN c |->
     LET t == Last({u \in 0..(m * k - 1) : (u \div k) + ldc * (u % k) = x})
     IN IF t < 0 THEN c[x]
        ELSE DotFrom(Zero, a, lda, b, ldb, t \div k, t % k, 0, n)]

RECURSIVE identityFrom(_, _, _, _)
\* Iterations i.. of identity's loop: a.fill(0, start, start + n); a[start + i] = 1.
identityFrom(a, lda, n, i) ==
  IF i >= n THEN a
  ELSE LET start == lda * i
           filled == [x \in DOMAIN a |-> IF x >= start /\ x < start + n THEN Zero ELSE a[x]]
       IN identityFrom(Store(filled, start + i, One), lda, n, i + 1)

identity(a, lda, n) == identityFrom(a, lda, n, 0)

createIdentity(rows, cols) ==
  identity(NewArray(rows * cols), rows, IF rows < cols THEN rows ELSE cols)

\* a[i * lda + j] != (i === j ? 1 : 0) is true for an undefined or NaN element.
isIdentity(a, lda, n) ==
  \A i \in 0..(n - 1), j \in 0..(n - 1) :
     Eq(Load(a, i * lda + j), IF i = j THEN One ELSE Zero)

\* copy that takes b's stride for a's column offset too.
copySameStride(b, ldb, a, lda, m, n) ==
  [x \in DOMAIN b |->
     LET t == Last({u \in 0..(m * n - 1) : (u \div m) * ldb + (u % m) = x})
     IN IF t < 0 THEN b[x] ELSE Load(a, (t \div m) * ldb + (t % m))]

\* Iteration t of the two loops has col = t \div m and row = t % m.
copy(b, ldb, a, lda, m, n) ==
  [x \in DOMAIN b |->
     LET t == Last({u \in 0..(m * n - 1) : (u \div m) * ldb + (u % m) = x})
     IN IF t < 0 THEN b[x] ELSE Load(a, (t \div m) * lda + (t % m))]

equal(a, lda, b, ldb, m, n) ==
  \A j \in 0..(n - 1), i \in 0..(m - 1) : Eq(Load(a, lda * j + i), Load(b, ldb * j + i))

\* transpose that takes b's stride for a's columns.
transposeWrongStride(b, ldb, a, lda, m, n) ==
  [x \in DOMAIN b |->
     LET t == Last({u \in 0..(m * n - 1) : (u % n) + (u \div n) * ldb = x})
     IN IF t < 0 THEN b[x] ELSE Load(a, (t \div n) + (t % n) * ldb)]

\* Iteration t of the two loops has i = t \div n and j = t % n.
transpose(b, ldb, a, lda, m, n) ==
  [x \in DOMAIN b |->
     LET t == Last({u \in 0..(m * n - 1) : (u % n) + (u \div n) * ldb = x})
     IN IF t < 0 THEN b[x] ELSE Load(a, (t \div n) + (t % n) * lda)]

\* out[i] = mat[matrixStride * rank + i] + sum over j of mat[matrixStride * j + i] * vec[j]
RECURSIVE transformSum(_, _, _, _, _, _, _)
transformSum(sum, mat, matrixStride, vec, rank, i, j) ==
  IF j >= rank THEN sum
  ELSE transformSum(Add(sum, Mul(Load(mat, matrixStride * j + i), Load(vec, j))),
                    mat, matrixStride, vec, rank, i, j + 1)

transformPoint(out, mat, matrixStride, vec, rank) ==
  [i \in DOMAIN out |->
     IF i < rank
     THEN transformSum(Load(mat, matrixStride * rank + i), mat, matrixStride, vec, rank, i, 0)
     ELSE out[i]]

transformVector(out, mat, matrixStride, vec, rank) ==
  [i \in DOMAIN out |->
     IF i < rank THEN transformSum(Zero, mat, matrixStride, vec, rank, i, 0) ELSE out[i]]

\* ------------------------------------------------------- pivoted inverse engine
\* new Uint32Array(len)
NewUint32Array(len) == [i \in 0..(len - 1) |-> 0]

\* let pivots: Uint32Array|undefined, before the first call.
Undefined == [defined |-> FALSE, data |-> NewUint32Array(0)]

\* PreparePivots that allocates a scratch of length n on every call.
PreparePivotsAlwaysNew(piv, n) ==
  LET data == NewUint32Array(n)
  IN [defined |-> TRUE, data |-> [i \in DOMAIN data |-> IF i < n THEN i ELSE data[i]]]

\* The start of inverseInplace: allocate the scratch when it is missing or too
\* short, then pivots[i] = i for i < n.
PreparePivots(piv, n) ==
  LET data == IF ~piv.defined \/ Length(piv.data) < n THEN NewUint32Array(n) ELSE piv.data
  IN [defined |-> TRUE, data |-> [i \in DOMAIN data |-> IF i < n THEN i ELSE data[i]]]

RECURSIVE FindPivotFrom(_, _, _, _, _, _)
\* The pivot search from `row` on: the first row >= k of largest magnitude in column k.
FindPivotFrom(buf, kColOff, n, row, bestPivot, pivotRow) ==
  IF row >= n THEN pivotRow
  ELSE LET mag == Abs(buf[kColOff + row])
       IN IF Gt(mag, bestPivot)
          THEN FindPivotFrom(buf, kColOff, n, row + 1, mag, row)
          ELSE FindPivotFrom(buf, kColOff, n, row + 1, bestPivot, pivotRow)

FindPivot(buf, ld, n, kk) ==
  FindPivotFrom(buf, ld * kk, n, kk + 1, Abs(buf[ld * kk + kk]), kk)

\* Swap rows r1 and r2 over columns 0..n-1.
SwapRows(buf, ld, n, r1, r2) ==
  [x \in DOMAIN buf |->
     IF \E c \in 0..(n - 1) : x = ld * c + r1 THEN buf[x - r1 + r2]
     ELSE IF \E c \in 0..(n - 1) : x = ld * c + r2 THEN buf[x - r2 + r1]
     ELSE buf[x]]

\* SwapPivots with the second index off by one: it reaches past the n entries
\* of the running call (a read past the end of the array gives 0, a write
\* there is dropped).
SwapPivotsPastEnd(data, i1, i2) ==
  LET other == IF (i2 + 1) \in DOMAIN data THEN data[i2 + 1] ELSE 0
  IN [i \in DOMAIN data |-> IF i = i1 THEN other ELSE IF i = i2 + 1 THEN data[i1] ELSE data[i]]

\* SwapPivots that loses the saved entry: pivots[i2] keeps its value.
SwapPivotsOneWay(data, i1, i2) ==
  [i \in DOMAIN data |-> IF i = i1 THEN data[i2] ELSE data[i]]

\* Swap pivots[i1] with pivots[i2].
SwapPivots(data, i1, i2) ==
  [i \in DOMAIN data |-> IF i = i1 THEN data[i2] ELSE IF i = i2 THEN data[i1] ELSE data[i]]

\* Divide row kk by the pivot element, then a(kk, kk) = pivotInv.
ScaleRow(buf, ld, n, kk, pivotInv) ==
  [x \in DOMAIN buf |->
     IF x = ld * kk + kk THEN pivotInv
     ELSE IF \E j \in 0..(n - 1) : x = ld * j + kk THEN Mul(buf[x], pivotInv)
     ELSE buf[x]]

\* Subtract factor * row kk from every other row; the element in column kk
\* becomes factor * pivotInv.  Row kk itself is not written, so the rows are
\* independent of the order in which the loop visits them.
Eliminate(buf, ld, n, kk, pivotInv) ==
  [x \in DOMAIN buf |->
     LET row == x % ld
         j == x \div ld
     IN IF row < n /\ j < n /\ row # kk
        THEN LET factor == Neg(buf[ld * kk + row])
             IN IF j = kk THEN Mul(factor, pivotInv)
                ELSE Add(buf[x], Mul(factor, buf[ld * j + kk]))
        ELSE buf[x]]

\* ElimStep without `determinant *= -1` on a row swap.
ElimStepNoSign(buf, ld, n, kk, data, det) ==
  LET pivotRow == FindPivot(buf, ld, n, kk)
      swap == kk # pivotRow
      buf1 == IF swap THEN SwapRows(buf, ld, n, kk, pivotRow) ELSE buf
      data1 == IF swap THEN SwapPivots(data, kk, pivotRow) ELSE data
      pivotValue == buf1[ld * kk + kk]
      pivotInv == Div(One, pivotValue)
      buf2 == ScaleRow(buf1, ld, n, kk, pivotInv)
  IN [buf |-> Eliminate(buf2, ld, n, kk, pivotInv),
      data |-> data1,
      det |-> Mul(det, pivotValue),
      swapped |-> swap,
      pivotValue |-> pivotValue]

\* One iteration (column kk) of the elimination loop.
ElimStep(buf, ld, n, kk, data, det) ==
  LET pivotRow == FindPivot(buf, ld, n, kk)
      swap == kk # pivotRow
      buf1 == IF swap THEN SwapRows(buf, ld, n, kk, pivotRow) ELSE buf
      det1 == IF swap THEN Mul(det, MinusOne) ELSE det
      data1 == IF swap THEN SwapPivots(data, kk, pivotRow) ELSE data
      pivotValue == buf1[ld * kk + kk]
      pivotInv == Div(One, pivotValue)
      buf2 == ScaleRow(buf1, ld, n, kk, pivotInv)
  IN [buf |-> Eliminate(buf2, ld, n, kk, pivotInv),
      data |-> data1,
      det |-> Mul(det1, pivotValue),
      swapped |-> swap,
      pivotValue |-> pivotValue]

\* Swap columns c1 and c2 over rows 0..n-1.
SwapCols(buf, ld, n, c1, c2) ==
  [x \in DOMAIN buf |->
     IF x >= ld * c1 /\ x < ld * c1 + n THEN Load(buf, x - ld * c1 + ld * c2)
     ELSE IF x >= ld * c2 /\ x < ld * c2 + n THEN Load(buf, x - ld * c2 + ld * c1)
     ELSE buf[x]]

\* PermuteStep that updates the pivot table but leaves the columns where they are.
PermuteStepNoSwap(buf, ld, n, cc, data) ==
  LET targetCol == data[cc]
      temp == data[targetCol]
  IN [buf |-> buf,
      data |-> [i \in DOMAIN data |->
                  IF i = targetCol THEN targetCol ELSE IF i = cc THEN temp ELSE data[i]]]

\* PermuteStep without `pivots[targetCol] = targetCol`.
PermuteStepNoFix(buf, ld, n, cc, data) ==
  LET targetCol == data[cc]
      temp == data[targetCol]
  IN [buf |-> SwapCols(buf, ld, n, cc, targetCol),
      data |-> [i \in DOMAIN data |-> IF i = cc THEN temp ELSE data[i]]]

\* One iteration of the while loop that permutes the columns back:
\* targetCol is pivots[col] throughout the loop.
PermuteStep(buf, ld, n, cc, data) ==
  LET targetCol == data[cc]
      temp == data[targetCol]
  IN [buf |-> SwapCols(buf, ld, n, cc, targetCol),
      data |-> [i \in DOMAIN data |->
                  IF i = targetCol THEN targetCol ELSE IF i = cc THEN temp ELSE data[i]]]

RECURSIVE ElimFrom(_, _, _, _, _, _)
\* The elimination loop from column kk on.
ElimFrom(buf, ld, n, kk, data, det) ==
  IF kk >= n THEN [buf |-> buf, data |-> data, det |-> det]
  ELSE LET s == ElimStep(buf, ld, n, kk, data, det)
       IN ElimFrom(s.buf, ld, n, kk + 1, s.data, s.det)

RECURSIVE PermuteFrom(_, _, _, _, _)
\* The column permutation loop from column cc on.
PermuteFrom(buf, ld, n, cc, data) ==
  IF cc >= n THEN [buf |-> buf, data |-> data]
  ELSE IF data[cc] # cc
    THEN LET s == PermuteStep(buf, ld, n, cc, data) IN PermuteFrom(s.buf, ld, n, cc, s.data)
  ELSE PermuteFrom(buf, ld, n, cc + 1, data)

\* inverseInplace(a, lda, n) run to completion from the scratch state piv.
inverseInplace(buf, ld, n, piv) ==
  LET p == PreparePivots(piv, n)
      e == ElimFrom(buf, ld, n, 0, p.data, One)
      q == PermuteFrom(e.buf, ld, n, 0, e.data)
  IN [a |-> q.buf, determinant |-> e.det, pivots |-> [defined |-> TRUE, data |-> q.data]]

\* ------------------------------------------------ homogeneous transform builders
RECURSIVE extendTranslationFrom(_, _, _, _, _)
\* b[(bRank + 1) * bRank + i] = a[(aRank + 1) * aRank + i] for i.. < aRank
extendTranslationFrom(b, bRank, a, aRank, i) ==
  IF i >= aRank THEN b
  ELSE extendTranslationFrom(
         Store(b, (bRank + 1) * bRank + i, Load(a, (aRank + 1) * aRank + i)),
         bRank, a, aRank, i + 1)

RECURSIVE extendDiagonalFrom(_, _, _)
\* b[(bRank + 1) * i + i] = 1 for i.. < bRank
extendDiagonalFrom(b, bRank, i) ==
  IF i >= bRank THEN b
  ELSE extendDiagonalFrom(Store(b, (bRank + 1) * i + i, One), bRank, i + 1)

\* extendHomogeneousTransform without the 1s on the added diagonal.
extendHomogeneousTransformNoDiagonal(b, bRank, a, aRank) ==
  LET b1 == copy(b, bRank + 1, a, aRank + 1, aRank, aRank)
      b2 == extendTranslationFrom(b1, bRank, a, aRank, 0)
  IN Store(b2, Length(b2) - 1, One)

\* extendHomogeneousTransform that clears b before it fills it in.
extendHomogeneousTransformClearsFirst(b, bRank, a, aRank) ==
  LET b0 == [x \in DOMAIN b |-> Zero]
      b1 == copy(b0, bRank + 1, a, aRank + 1, aRank, aRank)
      b2 == extendTranslationFrom(b1, bRank, a, aRank, 0)
      b3 == Store(b2, Length(b2) - 1, One)
  IN extendDiagonalFrom(b3, bRank, aRank)

extendHomogeneousTransform(b, bRank, a, aRank) ==
  LET b1 == copy(b, bRank + 1, a, aRank + 1, aRank, aRank)
      b2 == extendTranslationFrom(b1, bRank, a, aRank, 0)
      b3 == Store(b2, Length(b2) - 1, One)
  IN extendDiagonalFrom(b3, bRank, aRank)

\* Math.sin(degree * Math.PI / 180) and Math.cos(degree * Math.PI / 180), taken
\* exactly, for the multiples of 90 degrees.
SinDeg(degree) ==
  LET d == degree % 360 IN IF d = 90 THEN One ELSE IF d = 270 THEN MinusOne ELSE Zero
CosDeg(degree) ==
  LET d == degree % 360 IN IF d = 0 THEN One ELSE IF d = 180 THEN MinusOne ELSE Zero

\* The index table of rotHelper; << >> for an unrecognised direction.
RotIdxs(direction) ==
  IF direction = "yaw" THEN <<0, 1, 4, 5, 10, 15>>
  ELSE IF direction = "roll" THEN <<5, 6, 9, 10, 0, 15>>
  ELSE IF direction = "pitch" THEN <<0, 8, 2, 10, 5, 15>>
  ELSE << >>

\* The assignments of rotHelper, in the source's order (idxs[i] is idxs[i + 1] here).
RotFill(idxs, sin_deg, cos_deg) ==
  LET r0 == NewArray(16)
      r1 == Store(r0, idxs[1], cos_deg)
      r2 == Store(r1, idxs[2], sin_deg)
      r3 == Store(r2, idxs[3], Mul(MinusOne, sin_deg))
      r4 == Store(r3, idxs[4], cos_deg)
      r5 == Store(r4, idxs[5], One)
  IN Store(r5, idxs[6], Zero)

\* rotHelper whose yaw table has the two sine slots exchanged.
rotHelperYawFlipped(direction, degree) ==
  LET idxs == IF direction = "yaw" THEN <<0, 4, 1, 5, 10, 15>> ELSE RotIdxs(direction)
  IN IF idxs = << >> THEN NewArray(16) ELSE RotFill(idxs, SinDeg(degree), CosDeg(degree))

rotHelper(direction, degree) ==
  LET idxs == RotIdxs(direction)
  IN IF idxs = << >> THEN NewArray(16) ELSE RotFill(idxs, SinDeg(degree), CosDeg(degree))

\* Returns the fresh matrix; the argument is not written.
rotateMatrix(matrix, xAngle, yAngle, zAngle) ==
  LET rollRot == rotHelper("roll", xAngle)
      pitchRot == rotHelper("pitch", yAngle)
      yawRot == rotHelper("yaw", zAngle)
      temp1 == multiply(NewArray(16), 4, yawRot, 4, pitchRot, 4, 4, 4, 4)
      temp2 == multiply(NewArray(16), 4, temp1, 4, rollRot, 4, 4, 4, 4)
      temp3 == multiply(NewArray(16), 4, matrix, 4, temp2, 4, 4, 4, 4)
  IN [ret |-> temp3, matrix |-> matrix]

\* scaleMatrix that leaves scale_mat[15] at 1.
scaleMatrixCornerOne(matrix, xScale, yScale, zScale) ==
  LET s0 == createIdentity(4, 4)
      s1 == Store(s0, 0, Mul(s0[0], xScale))
      s2 == Store(s1, 5, Mul(s1[5], yScale))
      s3 == Store(s2, 10, Mul(s2[10], zScale))
  IN [ret |-> multiply(NewArray(16), 4, matrix, 4, s3, 4, 4, 4, 4), matrix |-> matrix]

\* Returns the fresh matrix; the argument is not written.
scaleMatrix(matrix, xScale, yScale, zScale) ==
  LET s0 == createIdentity(4, 4)
      s1 == Store(s0, 0, Mul(s0[0], xScale))
      s2 == Store(s1, 5, Mul(s1[5], yScale))
      s3 == Store(s2, 10, Mul(s2[10], zScale))
      scale_mat == Store(s3, 15, Zero)
  IN [ret |-> multiply(NewArray(16), 4, matrix, 4, scale_mat, 4, 4, 4, 4), matrix |-> matrix]

\* eye.map((a, i) => a - rotMat[i]): one element per element of eye.
SubtractFrom(eye, rotMat) == [i \in DOMAIN eye |-> Add(eye[i], Neg(Load(rotMat, i)))]

\* calcOffset(rotMat, rotPoint): the fresh 4-element offset.  identity() is
\* called with n = 16 on a 16-element buffer: its fills are clamped to the
\* buffer and its writes past the end are dropped.
calcOffset(rotMat, rotPoint) ==
  LET eye == identity(NewArray(16), 4, 16)
      diffMat == SubtractFrom(eye, rotMat)
      offset == NewArray(4)
      p0 == Store(NewArray(4), 0, Load(rotPoint, 0))
      p1 == Store(p0, 1, Load(rotPoint, 1))
      p2 == Store(p1, 2, Load(rotPoint, 2))
      point == Store(p2, 3, One)
  IN multiply(offset, 4, diffMat, 4, point, 4, 4, 4, 1)

\* offsetMatrix writes its argument and returns it; rotPoint is not written.
offsetMatrix(matrix, rotPoint, scale_x, scale_y, scale_z) ==
  LET r0 == Store(NewArray(3), 0, Mul(Load(rotPoint, 0), scale_x))
      r1 == Store(r0, 1, Mul(Load(rotPoint, 1), scale_y))
      rot_new == Store(r1, 2, Mul(Load(rotPoint, 2), scale_z))
      offset == calcOffset(matrix, rot_new)
      m1 == Store(matrix, 12, Div(offset[0], scale_x))
      m2 == Store(m1, 13, Div(offset[1], scale_y))
      m3 == Store(m2, 14, Div(offset[2], scale_z))
  IN [ret |-> m3, matrix |-> m3, rotPoint |-> rotPoint]

\* createHomogeneousScaleMatrix that steps along the diagonal by stride, not stride + 1.
createHomogeneousScaleMatrixRowStep(scales, square) ==
  LET rank == Length(scales)
      stride == IF square THEN rank + 1 ELSE rank
      m0 == NewArray(stride * (rank + 1))
      m1 == IF square THEN Store(m0, Length(m0) - 1, One) ELSE m0
  IN [x \in DOMAIN m1 |->
        LET t == Last({i \in 0..(rank - 1) : stride * i = x})
        IN IF t < 0 THEN m1[x] ELSE scales[t]]

\* createHomogeneousScaleMatrix(c, scales, square): the fresh buffer.
createHomogeneousScaleMatrix(scales, square) ==
  LET rank == Length(scales)
      stride == IF square THEN rank + 1 ELSE rank
      m0 == NewArray(stride * (rank + 1))
      m1 == IF square THEN Store(m0, Length(m0) - 1, One) ELSE m0
  IN [x \in DOMAIN m1 |->
        LET t == Last({i \in 0..(rank - 1) : (stride + 1) * i = x})
        IN IF t < 0 THEN m1[x] ELSE scales[t]]

\* ------------------------------------------------------------------- state
VARIABLES
  pivots,       \* the module-level scratch: [defined, data]
  pc,           \* "idle", or the position inside inverseInplace: "elim", "permute", "done"
  op,           \* the entry point of the running call: "inverseInplace" or "inverse"
  a, lda,       \* the caller's buffer a and its column stride
  b, ldb,       \* the caller's buffer b and its column stride (inverse only)
  n,            \* the matrix size of the running call
  k,            \* the elimination loop's counter
  col,          \* the permutation loop's counter
  determinant,  \* the running determinant
  orig,         \* a as it was when the call was made
  rowSwaps,     \* the number of row swaps of the running call
  pivotProd,    \* the product of the pivot values of the running call
  colSwaps,     \* the number of column swaps of the running call
  largest,      \* the largest n any call has asked for so far
  call,         \* the running call of one of the other functions: its name and arguments
  result        \* what that call returned and left in its arguments

engineVars == <<pivots, pc, op, a, lda, b, ldb, n, k, col, determinant, orig, rowSwaps, pivotProd,
               colSwaps, largest>>
opVars == <<call, result>>
vars == <<engineVars, opVars>>

NoCall == [name |-> "none"]
NoResult == [name |-> "none"]

\* The value of the padding elements between the columns of an input buffer,
\* and of the elements of an output buffer before the call.
Pad == I(7)

Empty == NewArray(0)

\* Matrices of size nn are functions from row + nn * column to integers.
\* Every matrix with entries in -v..v.
Cube(nn, v) == [0..(nn * nn - 1) -> (-v)..v]

\* The permutation matrices of size nn with one cell overwritten by a value
\* in -1..2: every order of row swaps, zero and non-zero pivots.
PermPlus(nn) ==
  {[x \in 0..(nn * nn - 1) |->
      IF x = cell THEN e ELSE IF f[x \div nn] = x % nn THEN 1 ELSE 0] :
     f \in {g \in [0..(nn - 1) -> 0..(nn - 1)] :
              \A c1 \in 0..(nn - 1), c2 \in 0..(nn - 1) : g[c1] = g[c2] => c1 = c2},
     cell \in 0..(nn * nn - 1),
     e \in (-1)..2}

\* A call of size nn allocates the scratch, or finds one of just that length.
ScratchFits(nn) == ~pivots.defined \/ Length(pivots.data) <= nn

\* The inputs of inverseInplace of size nn with stride ld.  When the scratch
\* is no longer than nn: every matrix over -MaxVal..MaxVal up to size 2, and
\* every matrix over -1..1 of size 3 with stride 3.  Otherwise, and when the
\* call finds a longer scratch left by a larger call, the family PermPlus.
InPlaceInputs(nn, ld) ==
  IF nn = 0 THEN Cube(nn, MaxVal)
  ELSE IF nn <= 2 /\ ScratchFits(nn) THEN Cube(nn, MaxVal)
  ELSE IF nn = 3 /\ ld = nn /\ ScratchFits(nn) THEN Cube(nn, 1)
  ELSE PermPlus(nn)

\* The inputs of inverse of size nn.
InverseInputs(nn) ==
  IF nn = 0 \/ (nn <= 2 /\ ScratchFits(nn)) THEN Cube(nn, MaxVal) ELSE PermPlus(nn)

\* The column strides tried for size nn: the matrix's own size and a padded one.
Strides(nn) == {nn, nn + MaxPad}

\* The nn x nn matrix mat stored column-major with stride ld.
Buffer(mat, nn, ld) ==
  [x \in 0..(ld * nn - 1) |-> IF x % ld < nn THEN I(mat[(x % ld) + nn * (x \div ld)]) ELSE Pad]

\* The buffer the in-place algorithm of the running call works on, and its stride.
Work == IF op = "inverse" THEN b ELSE a
WorkLd == IF op = "inverse" THEN ldb ELSE lda
SetWork(buf) == IF op = "inverse" THEN b' = buf /\ a' = a ELSE a' = buf /\ b' = b

EngineInit ==
  /\ pivots = Undefined
  /\ pc = "idle"
  /\ op = "none"
  /\ a = Empty /\ lda = 0
  /\ b = Empty /\ ldb = 0
  /\ n = 0 /\ k = 0 /\ col = 0
  /\ determinant = One
  /\ orig = Empty
  /\ rowSwaps = 0
  /\ pivotProd = One
  /\ colSwaps = 0
  /\ largest = 0

Init ==
  /\ EngineInit
  /\ call = NoCall
  /\ result = NoResult

\* inverseInplace(a, lda, n) up to the start of the elimination loop.
InverseInplaceCall ==
  /\ pc = "idle"
  /\ \E nn \in 0..MaxN : \E ld \in Strides(nn) : \E mat \in InPlaceInputs(nn, ld) :
       /\ n' = nn
       /\ lda' = ld
       /\ a' = Buffer(mat, nn, ld)
       /\ orig' = Buffer(mat, nn, ld)
       /\ pivots' = PreparePivots(pivots, nn)
       /\ largest' = IF nn > largest THEN nn ELSE largest
  /\ op' = "inverseInplace"
  /\ rowSwaps' = 0
  /\ pivotProd' = One
  /\ colSwaps' = 0
  /\ determinant' = One
  /\ k' = 0
  /\ pc' = "elim"
  /\ UNCHANGED <<b, ldb, col>>
  /\ UNCHANGED opVars

\* inverse(b, ldb, a, lda, n): copy(b, ldb, a, lda, n, n), then inverseInplace(b, ldb, n)
\* up to the start of the elimination loop.
InverseCall ==
  /\ pc = "idle"
  /\ \E nn \in 0..MaxN : \E ld \in Strides(nn) : \E ld2 \in Strides(nn) : \E mat \in InverseInputs(nn) :
       /\ n' = nn
       /\ lda' = ld
       /\ ldb' = ld2
       /\ a' = Buffer(mat, nn, ld)
       /\ orig' = Buffer(mat, nn, ld)
       /\ b' = copy([x \in 0..(ld2 * nn - 1) |-> Pad], ld2, Buffer(mat, nn, ld), ld, nn, nn)
       /\ pivots' = PreparePivots(pivots, nn)
       /\ largest' = IF nn > largest THEN nn ELSE largest
  /\ op' = "inverse"
  /\ rowSwaps' = 0
  /\ pivotProd' = One
  /\ colSwaps' = 0
  /\ determinant' = One
  /\ k' = 0
  /\ pc' = "elim"
  /\ UNCHANGED col
  /\ UNCHANGED opVars

\* One iteration of the elimination loop.
ElimIter ==
  /\ pc = "elim"
  /\ k < n
  /\ LET s == ElimStep(Work, WorkLd, n, k, pivots.data, determinant)
     IN /\ SetWork(s.buf)
        /\ pivots' = [pivots EXCEPT !.data = s.data]
        /\ determinant' = s.det
        /\ rowSwaps' = IF s.swapped THEN rowSwaps + 1 ELSE rowSwaps
        /\ pivotProd' = Mul(pivotProd, s.pivotValue)
  /\ k' = k + 1
  /\ UNCHANGED <<pc, op, lda, ldb, n, col, orig, colSwaps, largest>>
  /\ UNCHANGED opVars

\* The elimination loop ends; the permutation loop starts at column 0.
ElimExit ==
  /\ pc = "elim"
  /\ k >= n
  /\ pc' = "permute"
  /\ col' = 0
  /\ UNCHANGED <<pivots, op, a, lda, b, ldb, n, k, determinant, orig, rowSwaps, pivotProd,
                  colSwaps, largest>>
  /\ UNCHANGED opVars

\* One iteration of the while loop: column col is not in place yet.  The
\* counter colSwaps is capped; the loop itself has no such limit.
PermuteSwap ==
  /\ pc = "permute"
  /\ col < n
  /\ pivots.data[col] # col
  /\ colSwaps <= MaxN
  /\ LET s == PermuteStep(Work, WorkLd, n, col, pivots.data)
     IN /\ SetWork(s.buf)
        /\ pivots' = [pivots EXCEPT !.data = s.data]
  /\ colSwaps' = colSwaps + 1
  /\ UNCHANGED <<pc, op, lda, ldb, n, k, col, determinant, orig, rowSwaps, pivotProd, largest>>
  /\ UNCHANGED opVars

\* The while loop ends for column col; the for loop moves on.
PermuteNext ==
  /\ pc = "permute"
  /\ col < n
  /\ pivots.data[col] = col
  /\ col' = col + 1
  /\ UNCHANGED <<pivots, pc, op, a, lda, b, ldb, n, k, determinant, orig, rowSwaps, pivotProd,
                  colSwaps, largest>>
  /\ UNCHANGED opVars

\* The permutation loop ends: return determinant.
PermuteExit ==
  /\ pc = "permute"
  /\ col >= n
  /\ pc' = "done"
  /\ UNCHANGED <<pivots, op, a, lda, b, ldb, n, k, col, determinant, orig, rowSwaps, pivotProd,
                  colSwaps, largest>>
  /\ UNCHANGED opVars

\* The caller takes the result; only the scratch outlives the call.
Return ==
  /\ pc = "done"
  /\ pc' = "idle"
  /\ op' = "none"
  /\ a' = Empty /\ lda' = 0
  /\ b' = Empty /\ ldb' = 0
  /\ n' = 0 /\ k' = 0 /\ col' = 0
  /\ determinant' = One
  /\ orig' = Empty
  /\ rowSwaps' = 0
  /\ pivotProd' = One
  /\ colSwaps' = 0
  /\ UNCHANGED <<pivots, largest>>
  /\ UNCHANGED opVars

Next ==
  \/ InverseInplaceCall
  \/ InverseCall
  \/ ElimIter
  \/ ElimExit
  \/ PermuteSwap
  \/ PermuteNext
  \/ PermuteExit
  \/ Return

Spec == Init /\ [][Next]_vars

\* An iteration of the elimination loop, told by the loop counter alone.
ElimCount == pc = "elim" /\ k < n /\ k' = k + 1

\* The steps of a running call after its elimination iterations.
Run == ElimExit \/ PermuteSwap \/ PermuteNext \/ PermuteExit

\* A call that has started runs on: the code is sequential and nothing
\* suspends it between two steps.  ElimIter is the only step that counts k
\* up, so fairness of ElimCount is fairness of ElimIter.
SpecRun == Init /\ [][Next]_vars /\ WF_k(ElimCount) /\ WF_vars(Run)

\* --------------------------------------------------- calls of the other functions
\* The integer at offset x of the input pattern with seeds p, q.
Pattern(p, q, x) == ((p * x + q + x * x) % (2 * MaxVal + 1)) - MaxVal

\* A rows x cols matrix with stride ld holding the pattern with seeds p, q.
PatBuffer(p, q, rows, cols, ld) ==
  [x \in 0..(ld * cols - 1) |-> IF x % ld < rows THEN I(Pattern(p, q, x)) ELSE Pad]

\* An output buffer of the given length as the caller hands it over.
PadBuffer(len) == [x \in 0..(len - 1) |-> Pad]

Seeds == 0..MaxSeed
Dims == 0..MaxDim
OpStrides(d) == {d, d + MaxPad}

\* The 4x4 matrices given to rotateMatrix and scaleMatrix.
Mats4 == {createIdentity(4, 4)} \cup {PatBuffer(p, q, 4, 4, 4) : p \in Seeds, q \in Seeds}

\* Angles in degrees.
Angles == {0, 90, 180, 270}

Scales == (-1)..MaxScale

\* <<x, y>> or <<x, y, z>> as a vector buffer.
Vec(s) == [i \in 0..(Len(s) - 1) |-> I(s[i + 1])]

OpIdle == pc = "idle" /\ call.name = "none"

\* The coordinates of the points tried.
Coords == (-MaxVal)..MaxVal

\* multiply(c, ldc, a, lda, b, ldb, m, n, k)
MultiplyCall ==
  /\ OpIdle
  /\ \E m \in Dims, nn \in Dims, kk \in Dims :
     \E la \in OpStrides(m), lb \in OpStrides(nn), lc \in OpStrides(m) :
     \E pa \in Seeds, qa \in Seeds, pb \in Seeds, qb \in Seeds :
       LET aa == PatBuffer(pa, qa, m, nn, la)
           bb == PatBuffer(pb, qb, nn, kk, lb)
           cc == PadBuffer(lc * kk)
       IN /\ call' = [name |-> "multiply", c |-> cc, ldc |-> lc, a |-> aa, lda |-> la,
                      b |-> bb, ldb |-> lb, m |-> m, n |-> nn, k |-> kk]
          /\ result' = [c |-> multiply(cc, lc, aa, la, bb, lb, m, nn, kk), a |-> aa, b |-> bb]
  /\ UNCHANGED engineVars

\* identity(b, ldb, n), then multiply(c, ldc, a, lda, b, ldb, m, n, n)
MultiplyIdentityCall ==
  /\ OpIdle
  /\ \E m \in Dims, nn \in Dims :
     \E la \in OpStrides(m), lb \in OpStrides(nn), lc \in OpStrides(m) :
     \E pa \in Seeds, qa \in Seeds :
       LET aa == PatBuffer(pa, qa, m, nn, la)
           bb == identity(PadBuffer(lb * nn), lb, nn)
           cc == PadBuffer(lc * nn)
       IN /\ call' = [name |-> "multiplyIdentity", c |-> cc, ldc |-> lc, a |-> aa, lda |-> la,
                      b |-> bb, ldb |-> lb, m |-> m, n |-> nn, k |-> nn]
          /\ result' = [c |-> multiply(cc, lc, aa, la, bb, lb, m, nn, nn), a |-> aa, b |-> bb]
  /\ UNCHANGED engineVars

\* transpose(b, ldb, a, lda, m, n), then transpose(c, ldc, b, ldb, n, m)
TransposeCall ==
  /\ OpIdle
  /\ \E m \in Dims, nn \in Dims :
     \E la \in OpStrides(m), lb \in OpStrides(nn), lc \in OpStrides(m) :
     \E pa \in Seeds, qa \in Seeds :
       LET aa == PatBuffer(pa, qa, m, nn, la)
           bb == transpose(PadBuffer(lb * m), lb, aa, la, m, nn)
           cc == transpose(PadBuffer(lc * nn), lc, bb, lb, nn, m)
       IN /\ call' = [name |-> "transpose", a |-> aa, lda |-> la, ldb |-> lb, ldc |-> lc,
                      m |-> m, n |-> nn]
          /\ result' = [b |-> bb, c |-> cc, a |-> aa]
  /\ UNCHANGED engineVars

\* rotateMatrix(matrix, xAngle, yAngle, zAngle)
RotateCall ==
  /\ OpIdle
  /\ \E matrix \in Mats4 : \E xAngle \in Angles, yAngle \in Angles, zAngle \in Angles :
       /\ call' = [name |-> "rotateMatrix", matrix |-> matrix,
                   xAngle |-> xAngle, yAngle |-> yAngle, zAngle |-> zAngle]
       /\ result' = rotateMatrix(matrix, xAngle, yAngle, zAngle)
  /\ UNCHANGED engineVars

\* scaleMatrix(matrix, xScale, yScale, zScale)
ScaleCall ==
  /\ OpIdle
  /\ \E matrix \in Mats4 : \E xScale \in Scales, yScale \in Scales, zScale \in Scales :
       /\ call' = [name |-> "scaleMatrix", matrix |-> matrix,
                   xScale |-> xScale, yScale |-> yScale, zScale |-> zScale]
       /\ result' = scaleMatrix(matrix, I(xScale), I(yScale), I(zScale))
  /\ UNCHANGED engineVars

\* extendHomogeneousTransform(b, bRank, a, aRank) on a zero-filled or a used b
ExtendCall ==
  /\ OpIdle
  /\ \E aRank \in 0..MaxRank : \E bRank \in aRank..MaxRank : \E p \in Seeds, q \in Seeds :
     \E b0 \in {NewArray((bRank + 1) * (bRank + 1)), PadBuffer((bRank + 1) * (bRank + 1))} :
       LET aa == PatBuffer(p, q, aRank + 1, aRank + 1, aRank + 1)
       IN /\ call' = [name |-> "extendHomogeneousTransform", b |-> b0, bRank |-> bRank,
                      a |-> aa, aRank |-> aRank]
          /\ result' = [b |-> extendHomogeneousTransform(b0, bRank, aa, aRank), a |-> aa]
  /\ UNCHANGED engineVars

\* The matrices given to offsetMatrix: those of Mats4 as they are, and with
\* the translation column set to (tx, 0, 0).
Translated(m, tx) == Store(Store(Store(m, 12, I(tx)), 13, Zero), 14, Zero)
OffsetMats == Mats4 \cup {Translated(m, tx) : m \in Mats4, tx \in 0..1}

\* The scale factors given to offsetMatrix.
OffsetScales == {1, 2}

\* offsetMatrix(matrix, rotPoint, scale_x, scale_y, scale_z)
OffsetCall ==
  /\ OpIdle
  /\ \E matrix \in OffsetMats : \E x \in Coords, y \in Coords, z \in Coords :
     \E sx \in OffsetScales, sy \in OffsetScales, sz \in OffsetScales :
       /\ call' = [name |-> "offsetMatrix", matrix |-> matrix, rotPoint |-> Vec(<<x, y, z>>),
                   scale_x |-> sx, scale_y |-> sy, scale_z |-> sz]
       /\ result' = offsetMatrix(matrix, Vec(<<x, y, z>>), I(sx), I(sy), I(sz))
  /\ UNCHANGED engineVars

\* createHomogeneousScaleMatrix(Float64Array, scales, square)
CreateScaleCall ==
  /\ OpIdle
  /\ \E rank \in 0..MaxRank : \E sc \in [0..(rank - 1) -> Scales] : \E square \in BOOLEAN :
       /\ call' = [name |-> "createHomogeneousScaleMatrix", scales |-> sc, square |-> square]
       /\ result' = [ret |-> createHomogeneousScaleMatrix([i \in DOMAIN sc |-> I(sc[i])], square)]
  /\ UNCHANGED engineVars

\* The axis tags given to rotHelper: the three it knows and one it does not.
Directions == {"yaw", "pitch", "roll", "tilt"}

\* rotHelper(direction, degree)
RotHelperCall ==
  /\ OpIdle
  /\ \E direction \in Directions : \E degree \in Angles :
       /\ call' = [name |-> "rotHelper", direction |-> direction, degree |-> degree]
       /\ result' = [ret |-> rotHelper(direction, degree)]
  /\ UNCHANGED engineVars

\* The caller takes the result.
OpReturn ==
  /\ pc = "idle"
  /\ call.name # "none"
  /\ call' = NoCall
  /\ result' = NoResult
  /\ UNCHANGED engineVars

NextOps ==
  \/ MultiplyCall
  \/ MultiplyIdentityCall
  \/ TransposeCall
  \/ RotateCall
  \/ ScaleCall
  \/ ExtendCall
  \/ OffsetCall
  \/ CreateScaleCall
  \/ RotHelperCall
  \/ OpReturn

SpecOps == Init /\ [][NextOps]_vars

\* ------------------------------------------------------------------ claims
\* The integer entry (row i, column j) of an input buffer.
Entry(buf, ld, i, j) == buf[ld * j + i][1]

\* The sequence s without its t-th element.
Without(s, t) == [x \in 1..(Len(s) - 1) |-> IF x < t THEN s[x] ELSE s[x + 1]]

RECURSIVE CofactorSum(_, _, _, _, _)
\* Cofactor expansion along the first of `rows`, terms t.. of it.
CofactorSum(buf, ld, rows, cols, t) ==
  IF rows = <<>> THEN 1
  ELSE IF t > Len(cols) THEN 0
  ELSE (IF t % 2 = 1 THEN 1 ELSE -1) * Entry(buf, ld, rows[1], cols[t])
         * CofactorSum(buf, ld, Tail(rows), Without(cols, t), 1)
       + CofactorSum(buf, ld, rows, cols, t + 1)

\* The determinant of the nn x nn integer matrix in buf, by cofactor expansion.
CofactorDet(buf, ld, nn) ==
  CofactorSum(buf, ld, [x \in 1..nn |-> x - 1], [x \in 1..nn |-> x - 1], 1)

\* inverseInplace or inverse has returned.
Done == pc = "done"

\* The nn x nn blocks of two buffers hold the same values.
SameBlock(x, ldx, y, ldy, nn) ==
  \A i \in 0..(nn - 1), j \in 0..(nn - 1) : x[ldx * j + i] = y[ldy * j + i]

\* C1: for a non-singular A, after inverse(B, ldb, A, lda, n) both B.A and A.B
\* are the identity, row swaps or not; the same holds of the buffer that
\* inverseInplace leaves.
C1_InverseIsInverse ==
  (Done /\ CofactorDet(orig, lda, n) # 0) =>
     /\ isIdentity(multiply(NewArray(n * n), n, Work, WorkLd, orig, lda, n, n, n), n, n)
     /\ isIdentity(multiply(NewArray(n * n), n, orig, lda, Work, WorkLd, n, n, n), n, n)

\* C1 witness: inverse has returned the inverse of a non-singular 3x3 matrix
\* for which both elimination steps swapped rows.
C1_Witness ==
  /\ Done /\ op = "inverse" /\ n = 3 /\ rowSwaps = 2
  /\ CofactorDet(orig, lda, n) # 0
  /\ isIdentity(multiply(NewArray(n * n), n, b, ldb, orig, lda, n, n, n), n, n)

\* C2: for a non-singular A the returned determinant is the cofactor
\* determinant of A, and it is the product of the pivot values negated once
\* per row swap.
C2_DeterminantMatches ==
  (Done /\ CofactorDet(orig, lda, n) # 0) =>
     /\ determinant = I(CofactorDet(orig, lda, n))
     /\ determinant = Mul(IF rowSwaps % 2 = 1 THEN MinusOne ELSE One, pivotProd)

\* C2 witness: a call with an odd number of row swaps has returned a negative determinant.
C2_Witness ==
  /\ Done /\ n = 3 /\ rowSwaps = 1
  /\ CofactorDet(orig, lda, n) < 0
  /\ determinant = I(CofactorDet(orig, lda, n))

\* C3: for a singular matrix of size 1..3 the returned determinant equals 0.
C3_SingularGivesZero ==
  (Done /\ n >= 1 /\ CofactorDet(orig, lda, n) = 0) => Eq(determinant, Zero)

\* C4: inverse leaves a as it was, and returns the determinant and leaves in b
\* the block that inverseInplace gives on a copy of a.
C4_InverseCopies ==
  (Done /\ op = "inverse") =>
     LET ref == inverseInplace(orig, lda, n, Undefined)
     IN /\ a = orig
        /\ determinant = ref.determinant
        /\ SameBlock(b, ldb, ref.a, lda, n)

\* C4 witness: inverse has returned with different strides for a and b, after a row swap.
C4_Witness ==
  /\ Done /\ op = "inverse" /\ n = 2 /\ lda # ldb /\ rowSwaps = 1
  /\ a = orig
  /\ IsFinite(determinant) /\ ~IsZero(determinant)

\* C5: what an inverseInplace call returns and leaves in a is what the same
\* call gives when the pivot scratch is still undefined.
C5_NoPivotLeak ==
  (Done /\ op = "inverseInplace") =>
     LET ref == inverseInplace(orig, lda, n, Undefined)
     IN /\ determinant = ref.determinant
        /\ a = ref.a

\* C5 witness: an inverseInplace call that swapped rows has returned, using a
\* scratch that an earlier, larger call left behind.
C5_Witness ==
  /\ Done /\ op = "inverseInplace" /\ n = 2 /\ rowSwaps = 1
  /\ Length(pivots.data) > n
  /\ a = inverseInplace(orig, lda, n, Undefined).a

\* The exact integer product entry (i, j) of a (m x n) and b (n x k).
RECURSIVE ProductEntry(_, _, _, _, _, _, _)
ProductEntry(aa, la, bb, lb, i, j, l) ==
  IF l = 0 THEN 0
  ELSE ProductEntry(aa, la, bb, lb, i, j, l - 1)
         + aa[i + la * (l - 1)][1] * bb[(l - 1) + lb * j][1]

\* C6: multiply sets c(i, j) to the sum over l < n of a(i, l) * b(l, j) for
\* any strides, and with b the identity written by identity() the m x n block
\* of c equals that of a.
C6_MultiplyIsProduct ==
  /\ call.name \in {"multiply", "multiplyIdentity"} =>
       \A i \in 0..(call.m - 1), j \in 0..(call.k - 1) :
          result.c[i + call.ldc * j]
            = I(ProductEntry(call.a, call.lda, call.b, call.ldb, i, j, call.n))
  /\ call.name = "multiplyIdentity" =>
       /\ isIdentity(call.b, call.ldb, call.n)
       /\ equal(result.c, call.ldc, call.a, call.lda, call.m, call.n)

\* C6 witness: a 2x2 by 2x2 product with three different strides has a
\* non-zero entry that is the sum of two non-zero terms.
C6_Witness ==
  /\ call.name = "multiply" /\ call.m = 2 /\ call.n = 2 /\ call.k = 2
  /\ call.lda # call.ldb /\ call.ldc # call.lda
  /\ \E i \in 0..1, j \in 0..1 :
       /\ \A l \in 0..1 : call.a[i + call.lda * l][1] * call.b[l + call.ldb * j][1] # 0
       /\ result.c[i + call.ldc * j]
            = I(ProductEntry(call.a, call.lda, call.b, call.ldb, i, j, 2))
       /\ ~IsZero(result.c[i + call.ldc * j])

\* C7: transposing an m x n matrix and transposing the result again gives
\* the matrix back, whatever the shape and the strides.
C7_TransposeTwice ==
  call.name = "transpose" =>
     equal(result.c, call.ldc, call.a, call.lda, call.m, call.n)

\* C7 witness: a 2x1 matrix has been transposed twice over three different
\* strides; the buffer in between holds it as a 1x2 matrix.
C7_Witness ==
  /\ call.name = "transpose" /\ call.m = 2 /\ call.n = 1
  /\ call.lda # call.ldb /\ call.ldb # call.ldc
  /\ call.a[0] # call.a[1]
  /\ result.b[0] = call.a[0] /\ result.b[call.ldb] = call.a[1]
  /\ equal(result.c, call.ldc, call.a, call.lda, 2, 1)

\* The vector v equals the integer vector s.
VecIs(v, s) == \A i \in 0..(Len(s) - 1) : Eq(v[i], I(s[i + 1]))

\* The identity as createIdentity(Float64Array, 4) builds it.
Identity4 == createIdentity(4, 4)

\* C8 as stated: rotateMatrix(identity, 90, 0, 0) maps (1, 0, 0) to (0, 1, 0).
C8_FirstAngleIsYaw ==
  (call.name = "rotateMatrix" /\ call.matrix = Identity4
     /\ call.xAngle = 90 /\ call.yAngle = 0 /\ call.zAngle = 0) =>
     VecIs(transformVector(NewArray(3), result.ret, 4, Vec(<<1, 0, 0>>), 3), <<0, 1, 0>>)

\* C8 amended: the yaw angle is the last argument: rotateMatrix(identity, 0, 0, 90)
\* maps (1, 0, 0) to (0, 1, 0), and rotateMatrix(identity, 90, 0, 0), a roll
\* about the first axis, maps (1, 0, 0) to itself and (0, 1, 0) to (0, 0, 1).
C8_LastAngleIsYaw ==
  /\ (call.name = "rotateMatrix" /\ call.matrix = Identity4
        /\ call.xAngle = 0 /\ call.yAngle = 0 /\ call.zAngle = 90) =>
       VecIs(transformVector(NewArray(3), result.ret, 4, Vec(<<1, 0, 0>>), 3), <<0, 1, 0>>)
  /\ (call.name = "rotateMatrix" /\ call.matrix = Identity4
        /\ call.xAngle = 90 /\ call.yAngle = 0 /\ call.zAngle = 0) =>
       /\ VecIs(transformVector(NewArray(3), result.ret, 4, Vec(<<1, 0, 0>>), 3), <<1, 0, 0>>)
       /\ VecIs(transformVector(NewArray(3), result.ret, 4, Vec(<<0, 1, 0>>), 3), <<0, 0, 1>>)

\* C8 witness: rotateMatrix(identity, 0, 0, 90) has returned a matrix that
\* maps (1, 0, 0) to (0, 1, 0).
C8_Witness ==
  /\ call.name = "rotateMatrix" /\ call.matrix = Identity4
  /\ call.xAngle = 0 /\ call.yAngle = 0 /\ call.zAngle = 90
  /\ VecIs(transformVector(NewArray(3), result.ret, 4, Vec(<<1, 0, 0>>), 3), <<0, 1, 0>>)

\* C9: after extendHomogeneousTransform(b, 3, a, 2) on a zero-filled b, the
\* extended transform agrees with a on axes 0 and 1 at every point, and is
\* the identity on axis 2.
C9_ExtendAgrees ==
  (call.name = "extendHomogeneousTransform" /\ call.bRank = 3 /\ call.aRank = 2
     /\ call.b = NewArray(16)) =>
     \A x \in Coords, y \in Coords, z \in Coords :
        LET p3 == transformPoint(NewArray(3), result.b, 4, Vec(<<x, y, z>>), 3)
            p2 == transformPoint(NewArray(2), call.a, 3, Vec(<<x, y>>), 2)
        IN /\ Eq(p3[0], p2[0])
           /\ Eq(p3[1], p2[1])
           /\ Eq(p3[2], I(z))

\* C9 witness: a rank-2 transform with a non-zero translation and a non-zero
\* linear part has been extended into a zero-filled rank-3 buffer.
C9_Witness ==
  /\ call.name = "extendHomogeneousTransform" /\ call.bRank = 3 /\ call.aRank = 2
  /\ call.b = NewArray(16)
  /\ ~IsZero(call.a[6]) /\ ~IsZero(call.a[7]) /\ ~IsZero(call.a[0]) /\ ~IsZero(call.a[3])
  /\ result.b[12] = call.a[6] /\ result.b[10] = One

\* The scale factor of column j of scaleMatrix's diagonal matrix.
ScaleOf(j) == IF j = 0 THEN call.xScale ELSE IF j = 1 THEN call.yScale
              ELSE IF j = 2 THEN call.zScale ELSE 0

\* C10: scaleMatrix returns M . diag(sx, sy, sz, 0) and leaves M as it was, so
\* the last column of the result is zero; on the identity with scales
\* (2, 3, 4) the result maps the point (1, 1, 1) to (2, 3, 4).
C10_ScaleMatrix ==
  call.name = "scaleMatrix" =>
     /\ \A i \in 0..3, j \in 0..3 :
          Eq(result.ret[i + 4 * j], I(call.matrix[i + 4 * j][1] * ScaleOf(j)))
     /\ result.matrix = call.matrix
     /\ \A x \in 12..15 : IsZero(result.ret[x])
     /\ (call.matrix = Identity4 /\ call.xScale = 2 /\ call.yScale = 3 /\ call.zScale = 4) =>
          /\ isIdentity(call.matrix, 4, 4)
          /\ VecIs(transformPoint(NewArray(3), result.ret, 4, Vec(<<1, 1, 1>>), 3), <<2, 3, 4>>)

\* C10 witness: scaleMatrix(identity, 2, 3, 4) has returned.
C10_Witness ==
  /\ call.name = "scaleMatrix" /\ call.matrix = Identity4
  /\ call.xScale = 2 /\ call.yScale = 3 /\ call.zScale = 4
  /\ VecIs(transformPoint(NewArray(3), result.ret, 4, Vec(<<1, 1, 1>>), 3), <<2, 3, 4>>)

\* C11: after offsetMatrix(matrix, p, 1, 1, 1) the pivot p is a fixed point of
\* the matrix, whatever the matrix and its translation column were before:
\* transformPoint(out, matrix, 4, p, 3) = p.
C11_PivotIsFixed ==
  (call.name = "offsetMatrix" /\ call.scale_x = 1 /\ call.scale_y = 1 /\ call.scale_z = 1) =>
     LET out == transformPoint(NewArray(3), result.matrix, 4, call.rotPoint, 3)
     IN \A i \in 0..2 : Eq(out[i], call.rotPoint[i])

\* The diagonal offsets of a matrix of the given number of rows and columns
\* stored with column stride = rows.
OnDiagonal(x, rows, cols) == x % rows = x \div rows /\ x \div rows < cols

\* C12 as stated: square mode gives the (rank+1) x (rank+1) matrix with the
\* scales on the diagonal, 1 in the corner and 0 elsewhere; non-square mode
\* gives a rank x rank diagonal matrix of length rank * rank.
C12_NonSquareIsRankByRank ==
  call.name = "createHomogeneousScaleMatrix" =>
     LET rank == Length(call.scales)
         m == result.ret
     IN IF call.square
        THEN /\ Length(m) = (rank + 1) * (rank + 1)
             /\ \A x \in DOMAIN m :
                  m[x] = IF x = Length(m) - 1 THEN One
                         ELSE IF OnDiagonal(x, rank + 1, rank + 1) THEN I(call.scales[x % (rank + 1)])
                         ELSE Zero
        ELSE /\ Length(m) = rank * rank
             /\ \A x \in DOMAIN m :
                  m[x] = IF OnDiagonal(x, rank, rank) THEN I(call.scales[x % rank]) ELSE Zero

\* C12 amended: square mode as stated; non-square mode gives a buffer of
\* length rank * (rank + 1), a matrix of rank rows and rank + 1 columns with
\* column stride rank: scales[i] at (i, i), and 0 elsewhere, the whole last
\* column included.
C12_NonSquareIsRankByRankPlusOne ==
  call.name = "createHomogeneousScaleMatrix" =>
     LET rank == Length(call.scales)
         m == result.ret
     IN IF call.square
        THEN /\ Length(m) = (rank + 1) * (rank + 1)
             /\ \A x \in DOMAIN m :
                  m[x] = IF x = Length(m) - 1 THEN One
                         ELSE IF OnDiagonal(x, rank + 1, rank + 1) THEN I(call.scales[x % (rank + 1)])
                         ELSE Zero
        ELSE /\ Length(m) = rank * (rank + 1)
             /\ \A x \in DOMAIN m :
                  m[x] = IF OnDiagonal(x, rank, rank) THEN I(call.scales[x % rank]) ELSE Zero
             /\ \A i \in 0..(rank - 1) : m[rank * rank + i] = Zero

\* C12 witness: a non-square matrix of three different non-zero scales has
\* been built, twelve elements long, with the last scale at offset 8.
C12_Witness ==
  /\ call.name = "createHomogeneousScaleMatrix" /\ ~call.square
  /\ Length(call.scales) = 3
  /\ call.scales[0] = 2 /\ call.scales[1] = 3 /\ call.scales[2] = 4
  /\ Length(result.ret) = 12
  /\ result.ret[8] = I(4)

\* The rotation axis of a recognised tag: the axis whose diagonal entry is 1.
RotAxis(direction) == IF direction = "yaw" THEN 2 ELSE IF direction = "roll" THEN 0 ELSE 1

\* C13: for 'yaw', 'pitch' and 'roll' and every angle, rotHelper's matrix
\* holds cos, sin, -sin, cos in the four slots of the rotation plane, 1 on the
\* rotation axis's diagonal entry, 0 in every other off-diagonal entry, and 1
\* in the affine corner (index 15).
C13_RotHelperShape ==
  (call.name = "rotHelper" /\ call.direction \in {"yaw", "pitch", "roll"}) =>
     LET idxs == RotIdxs(call.direction)
         m == result.ret
         axis == RotAxis(call.direction)
     IN /\ Eq(m[idxs[1]], CosDeg(call.degree))
        /\ Eq(m[idxs[2]], SinDeg(call.degree))
        /\ Eq(m[idxs[3]], Neg(SinDeg(call.degree)))
        /\ Eq(m[idxs[4]], CosDeg(call.degree))
        /\ Eq(m[5 * axis], One)
        /\ \A x \in 0..15 :
             (x % 4 # x \div 4 /\ x \notin {idxs[1], idxs[2], idxs[3], idxs[4]}) => IsZero(m[x])
        /\ Eq(m[15], One)

\* The offsets of b that the claim lets extendHomogeneousTransform write: the
\* leading aRank x aRank block, the first aRank entries of the last column,
\* the corner, and the added diagonal entries.
MayWrite(x, bRank, aRank) ==
  LET row == x % (bRank + 1)
      column == x \div (bRank + 1)
  IN \/ row < aRank /\ column < aRank
     \/ column = bRank /\ row < aRank
     \/ row = bRank /\ column = bRank
     \/ row = column /\ aRank <= row /\ row < bRank

\* C15: extendHomogeneousTransform(b, bRank, a, aRank), bRank >= aRank and b
\* of length (bRank + 1)^2, changes b only in the leading block, the first
\* aRank entries of the last column, the corner and the added diagonal; every
\* other entry of b keeps its value, b keeps its length, and a is unchanged.
C15_ExtendFrame ==
  call.name = "extendHomogeneousTransform" =>
     /\ DOMAIN result.b = DOMAIN call.b
     /\ \A x \in DOMAIN call.b :
          ~MayWrite(x, call.bRank, call.aRank) => result.b[x] = call.b[x]
     /\ result.a = call.a

\* C15 witness: a rank-1 transform has been extended into a used rank-3
\* buffer; the translation entries of the added axes and an added
\* off-diagonal entry still hold the old value, the added diagonal holds 1.
C15_Witness ==
  /\ call.name = "extendHomogeneousTransform" /\ call.bRank = 3 /\ call.aRank = 1
  /\ call.b = PadBuffer(16)
  /\ result.b[13] = Pad /\ result.b[14] = Pad /\ result.b[6] = Pad /\ result.b[3] = Pad
  /\ result.b[5] = One /\ result.b[10] = One /\ result.b[15] = One
  /\ result.b[0] = call.a[0] /\ result.b[12] = call.a[2]

\* The scratch entries hold their own indices.
PivotsInPlace == \A i \in DOMAIN pivots.data : pivots.data[i] = i

\* C14: after any sequence of inversion calls the scratch's length is the
\* largest n asked for so far; a call allocates only when its n exceeds the
\* current length, no step shrinks the scratch, and at the start of every
\* call's elimination each entry holds its own index.
C14_ScratchGrowsToLargest ==
  /\ [](/\ pivots.defined => Length(pivots.data) = largest
        /\ (pc = "elim" /\ k = 0) => (pivots.defined /\ PivotsInPlace))
  /\ [][/\ Length(pivots'.data) >= Length(pivots.data)
        /\ (pc = "idle" /\ pc' = "elim" /\ pivots.defined /\ n' <= Length(pivots.data))
              => Length(pivots'.data) = Length(pivots.data)
        /\ (pc = "idle" /\ pc' = "elim" /\ n' > Length(pivots.data))
              => Length(pivots'.data) = n'
        /\ pc # "idle" => Length(pivots'.data) = Length(pivots.data)]_vars

\* C14 witness: a call of size 1 starts its elimination with the scratch of
\* length 3 that a larger call left.
C14_Witness ==
  /\ pc = "elim" /\ k = 0 /\ n = 1
  /\ largest = 3 /\ Length(pivots.data) = 3
  /\ PivotsInPlace

\* The first n scratch entries are a permutation of 0..n-1.
IsPermutation ==
  /\ \A i \in 0..(n - 1) : pivots.data[i] \in 0..(n - 1)
  /\ \A i \in 0..(n - 1), j \in 0..(n - 1) : pivots.data[i] = pivots.data[j] => i = j

\* C16: during a call the first n entries of the pivot table are a
\* permutation of 0..n-1 after every step; an elimination step with a row
\* swap exchanges the entries k and pivotRow (the rows swapped in the matrix)
\* and no other, one without a swap leaves the table alone; when the call
\* returns every entry holds its own index.
C16_PivotsArePermutation ==
  /\ [](/\ pc \in {"elim", "permute", "done"} => IsPermutation
        /\ pc = "done" => PivotsInPlace)
  /\ [][(pc = "elim" /\ k' = k + 1) =>
          IF rowSwaps' = rowSwaps THEN pivots' = pivots
          ELSE \E r \in (k + 1)..(n - 1) :
                 /\ r = FindPivot(Work, WorkLd, n, k)
                 /\ pivots'.data[k] = pivots.data[r]
                 /\ pivots'.data[r] = pivots.data[k]
                 /\ \A i \in DOMAIN pivots.data \ {k, r} : pivots'.data[i] = pivots.data[i]]_vars

\* C16 witness: the elimination of a 3x3 matrix has left the 3-cycle
\* <<1, 2, 0>> in the pivot table after two row swaps.
C16_Witness ==
  /\ pc = "permute" /\ n = 3 /\ rowSwaps = 2
  /\ pivots.data[0] = 1 /\ pivots.data[1] = 2 /\ pivots.data[2] = 0

\* The number of the first n pivot entries that hold their own index.
FixedCount(data) == Cardinality({i \in 0..(n - 1) : data[i] = i})

\* C17: every call of inverseInplace returns; each column swap leaves at
\* least one more pivot entry at its own index, and a call makes at most
\* n - 1 column swaps (none for n = 0).
C17_Terminates ==
  /\ (pc = "elim") ~> (pc = "done")
  /\ [][/\ colSwaps' <= (IF n' = 0 THEN 0 ELSE n' - 1)
        /\ colSwaps' = colSwaps + 1 => FixedCount(pivots'.data) > FixedCount(pivots.data)]_vars

\* C17 witness: a 3x3 call has returned after two column swaps.
C17_Witness ==
  /\ pc = "done" /\ n = 3 /\ colSwaps = 2
  /\ PivotsInPlace

====
